---- MODULE Spec2Model ----
(***************************************************************************)
(* A model of the fiber reconciler of src/src/index.tsx: the element       *)
(* model, the fiber heap, the render phase (performUnitOfWork,             *)
(* reconcileChildren, useState), the commit phase (commitRoot, commitWork, *)
(* commitDeletion, updateDOMOf) over a model of the host document, and the *)
(* idle-callback work loop.                                                *)
(*                                                                         *)
(* Objects are modelled by their identity: a fiber is its index in the     *)
(* heap `fibers`, a host node its index in `doms`; 0 is `undefined`.       *)
(***************************************************************************)
EXTENDS Integers, Sequences, FiniteSets, TLC

(***************************************************************************)
(* Bounds of the model.                                                    *)
(***************************************************************************)
\* how many passes are committed in one behaviour
MaxCommits == 2
\* how many actions are queued on one hook
MaxQueue == 2
\* the longest child list handed to reconcileChildren on its own
MaxChildren == 3
\* the deadlines of a slice: timeRemaining() drops below 1 after that many units (0: never)
Deadlines == {0, 1, 2}

(***************************************************************************)
(* Values of properties.  A value is a string, a number or a function      *)
(* (an event handler).  A handler created inside a component function is   *)
(* a fresh closure on every invocation: its identity is the fiber whose    *)
(* invocation created it and the hook whose setter it closes over.  A      *)
(* handler with fib = 0 is a function defined outside any component.       *)
(***************************************************************************)
Str(s) == [k |-> "str", s |-> s, n |-> 0, fib |-> 0]
Num(n) == [k |-> "num", s |-> "", n |-> n, fib |-> 0]
Handler(f, i) == [k |-> "fn", s |-> "", n |-> i, fib |-> f]

\* the property names that occur, in the order Object.keys lists them
AllKeys == <<"onClick", "style", "title", "nodeValue", "children">>

isEvent(key) == key \in {"onClick"}
isProperty(key) == key # "children" /\ ~isEvent(key)
\* mutant: every key of either bag counts as changed
isNew_always(prev, next, key) == key \in DOMAIN prev \/ key \in DOMAIN next

isNew(prev, next, key) == IF key \in DOMAIN prev /\ key \in DOMAIN next
                          THEN prev[key] # next[key]
                          ELSE (key \in DOMAIN prev) # (key \in DOMAIN next)
\* mutant: no key ever counts as gone
isGone_never(next, key) == FALSE

isGone(next, key) == key \notin DOMAIN next
isNewOrGone(prev, next, key) == isNew(prev, next, key)

\* name.toLowerCase().substring(2)
EventNameOf(key) == IF key = "onClick" THEN "click" ELSE key

(***************************************************************************)
(* Elements (what createElement and the JSX of the source build).          *)
(***************************************************************************)
createTextElement(v) == [type |-> "TEXT_FIBER", props |-> [nodeValue |-> v, children |-> <<>>]]

createElement(type, props, children) ==
    [type |-> type,
     props |-> [key \in DOMAIN props \cup {"children"} |->
                  IF key = "children" THEN children ELSE props[key]]]

NoProps == [key \in {} |-> Str("")]

\* the component functions of the program
FunctionTypes == {"Counter", "Eager"}
isFunctionComponent(type) == type \in FunctionTypes

\* function Counter's JSX, given the state and the setter useState returned
CounterOutput(state, setter) ==
    createElement("h1",
                  [onClick |-> setter, style |-> Str("user-select: none")],
                  <<createTextElement(Str("Count: ")), createTextElement(Num(state))>>)

(***************************************************************************)
(* The host document.  A node has a kind, the properties assigned to it,   *)
(* its registered listeners, its child list and its parent node.  Node 1   *)
(* is the container, which exists before the program starts.               *)
(***************************************************************************)
Container == 1

NewNode(kind) == [kind |-> kind,
                  props |-> IF kind = "#text" THEN [nodeValue |-> Str("")] ELSE NoProps,
                  listeners |-> {},
                  children |-> <<>>,
                  parentNode |-> 0]

\* the host turns a number assigned to a string property into its decimal text
DomCoerce(v) == IF v.k = "num" THEN Str(ToString(v.n)) ELSE v

Without(seq, x) == SelectSeq(seq, LAMBDA y : y # x)

RECURSIVE IsInclusiveAncestor(_, _, _)
IsInclusiveAncestor(D, a, n) ==
    IF n = 0 THEN FALSE
    ELSE IF n = a THEN TRUE
    ELSE IsInclusiveAncestor(D, a, D[n].parentNode)

\* one host operation, as logged: which fiber it was done for, in which phase
HostOp(h, op, fiber, parent, node, key, ok) ==
    [op |-> op, fiber |-> fiber, parent |-> parent, node |-> node, key |-> key, ok |-> ok,
     phase |-> IF h.committed THEN "commit" ELSE "render"]

(***************************************************************************)
(* The host primitives, on the machine state h of the running handler: the *)
(* nodes (doms), the operations performed so far (ops), whether commitRoot *)
(* has been entered (committed) and whether an exception is propagating    *)
(* (once err is set every later statement of the handler is skipped).      *)
(***************************************************************************)
\* parent.appendChild(child): a node that has a parent is first taken out of it
appendChild(h, f, parent, child) ==
    IF h.err THEN h
    ELSE IF IsInclusiveAncestor(h.doms, child, parent)
    THEN [h EXCEPT !.err = TRUE,
                   !.ops = Append(@, HostOp(h, "appendChild", f, parent, child, "", FALSE))]
    ELSE LET old == h.doms[child].parentNode
             D1 == IF old = 0 THEN h.doms
                   ELSE [h.doms EXCEPT ![old].children = Without(@, child)]
             D2 == [D1 EXCEPT ![parent].children = Append(@, child),
                              ![child].parentNode = parent]
         IN [h EXCEPT !.doms = D2,
                      !.ops = Append(@, HostOp(h, "appendChild", f, parent, child, "", TRUE))]

\* parent.removeChild(child): throws NotFoundError unless child is a child of parent
removeChild(h, f, parent, child) ==
    IF h.err THEN h
    ELSE IF h.doms[child].parentNode # parent
    THEN [h EXCEPT !.err = TRUE,
                   !.ops = Append(@, HostOp(h, "removeChild", f, parent, child, "", FALSE))]
    ELSE [h EXCEPT !.doms = [@ EXCEPT ![parent].children = Without(@, child),
                                      ![child].parentNode = 0],
                   !.ops = Append(@, HostOp(h, "removeChild", f, parent, child, "", TRUE))]

\* dom[name] = value
setProperty(h, f, node, key, value) ==
    IF h.err THEN h
    ELSE LET old == h.doms[node].props
             new == [x \in DOMAIN old \cup {key} |->
                       IF x = key THEN DomCoerce(value) ELSE old[x]]
         IN [h EXCEPT !.doms = [@ EXCEPT ![node].props = new],
                      !.ops = Append(@, HostOp(h, "setProperty", f, 0, node, key, TRUE))]

\* dom.addEventListener(type, listener): registering the same pair twice is a no-op
addEventListener(h, f, node, type, listener) ==
    IF h.err THEN h
    ELSE [h EXCEPT !.doms = [@ EXCEPT ![node].listeners = @ \cup {<<type, listener>>}],
                   !.ops = Append(@, HostOp(h, "addEventListener", f, 0, node, type, TRUE))]

\* dom.removeEventListener(type, listener)
removeEventListener(h, f, node, type, listener) ==
    IF h.err THEN h
    ELSE [h EXCEPT !.doms = [@ EXCEPT ![node].listeners = @ \ {<<type, listener>>}],
                   !.ops = Append(@, HostOp(h, "removeEventListener", f, 0, node, type, TRUE))]

\* document.createTextNode("") / document.createElement(type): returns the grown heap
createDOMOf(h, f, type) ==
    LET node == NewNode(IF type = "TEXT_FIBER" THEN "#text" ELSE type)
    IN [h EXCEPT !.doms = Append(@, node),
                 !.ops = Append(@, HostOp(h, "create", f, 0, Len(h.doms) + 1, "", TRUE))]

(***************************************************************************)
(* Fibers.  The machine state `m` threaded through the operators below is  *)
(* a record of the program's globals (fibers, deletions, nextUnitOfWork,   *)
(* wipRoot, currentRoot, wipFiber, hookIndex), the host document (doms)    *)
(* and the bookkeeping of the running handler (ops, err, processed).       *)
(***************************************************************************)
Fiber(type, props, dom, parent, alternate, effectTag) ==
    [type |-> type, props |-> props, dom |-> dom,
     parent |-> parent, child |-> 0, sibling |-> 0, alternate |-> alternate,
     effectTag |-> effectTag, hooks |-> <<>>]

\* the four steps of updateDOMOf, each over the keys of one property bag
RECURSIVE removeOldListeners(_, _, _, _, _)
removeOldListeners(m, f, prev, next, keys) ==
    IF keys = <<>> THEN m
    ELSE LET key == Head(keys)
             m1 == IF key \in DOMAIN prev /\ isEvent(key) /\ isNewOrGone(prev, next, key)
                   THEN removeEventListener(m, f, m.fibers[f].dom, EventNameOf(key), prev[key])
                   ELSE m
         IN removeOldListeners(m1, f, prev, next, Tail(keys))

RECURSIVE removeOldProperties(_, _, _, _, _)
removeOldProperties(m, f, prev, next, keys) ==
    IF keys = <<>> THEN m
    ELSE LET key == Head(keys)
             m1 == IF key \in DOMAIN prev /\ isProperty(key) /\ isGone(next, key)
                   THEN setProperty(m, f, m.fibers[f].dom, key, Str(""))
                   ELSE m
         IN removeOldProperties(m1, f, prev, next, Tail(keys))

RECURSIVE setNewProperties(_, _, _, _, _)
setNewProperties(m, f, prev, next, keys) ==
    IF keys = <<>> THEN m
    ELSE LET key == Head(keys)
             m1 == IF key \in DOMAIN next /\ isProperty(key) /\ isNew(prev, next, key)
                   THEN setProperty(m, f, m.fibers[f].dom, key, next[key])
                   ELSE m
         IN setNewProperties(m1, f, prev, next, Tail(keys))

RECURSIVE addNewListeners(_, _, _, _, _)
addNewListeners(m, f, prev, next, keys) ==
    IF keys = <<>> THEN m
    ELSE LET key == Head(keys)
             m1 == IF key \in DOMAIN next /\ isEvent(key) /\ isNew(prev, next, key)
                   THEN addEventListener(m, f, m.fibers[f].dom, EventNameOf(key), next[key])
                   ELSE m
         IN addNewListeners(m1, f, prev, next, Tail(keys))

\* fiber.alternate?.props ?? { children: [] }
prevPropsOf(m, f) ==
    IF m.fibers[f].alternate # 0 THEN m.fibers[m.fibers[f].alternate].props
    ELSE [children |-> <<>>]

updateDOMOf(m, f) ==
    LET prev == prevPropsOf(m, f)
        next == m.fibers[f].props
        m1 == removeOldListeners(m, f, prev, next, AllKeys)
        m2 == removeOldProperties(m1, f, prev, next, AllKeys)
        m3 == setNewProperties(m2, f, prev, next, AllKeys)
    IN addNewListeners(m3, f, prev, next, AllKeys)

\* fiber.dom = <the node createDOMOf returned>
setDom(m, f) == [m EXCEPT !.fibers[f].dom = Len(m.doms)]

attachDOM2(m, f) == updateDOMOf(setDom(createDOMOf(m, f, m.fibers[f].type), f), f)

(***************************************************************************)
(* reconcileChildren: one iteration of the while loop per call.            *)
(***************************************************************************)
\* mutant: the types are not compared
isSameType_anyType(m, oldFiber, hasFiber, el) ==
    oldFiber # 0 /\ hasFiber

\* oldFiber && fiber && fiber.type === oldFiber.type
isSameType(m, oldFiber, hasFiber, el) ==
    oldFiber # 0 /\ hasFiber /\ el.type = m.fibers[oldFiber].type

\* mutant: the old fiber's host node is not carried over
updateFiberOf_noDom(m, w, oldFiber, el) ==
    Fiber(m.fibers[oldFiber].type, el.props, 0, w, oldFiber, "UPDATE")

updateFiberOf(m, w, oldFiber, el) ==
    Fiber(m.fibers[oldFiber].type, el.props, m.fibers[oldFiber].dom, w, oldFiber, "UPDATE")

\* mutant: a replacing fiber is linked to the fiber it replaces
placementFiberOf_keepsAlternate(m, w, oldFiber, el) ==
    Fiber(el.type, el.props, 0, w, oldFiber, "PLACEMENT")

placementFiberOf(m, w, oldFiber, el) ==
    Fiber(el.type, el.props, 0, w, 0, "PLACEMENT")

\* oldFiber.effectTag = "DELETION"; deletions.push(oldFiber)
markDeletion(m, oldFiber) ==
    [m EXCEPT !.fibers[oldFiber].effectTag = "DELETION",
              !.deletions = Append(@, oldFiber)]

\* mutant: only the first fiber is linked
linkFiber_firstOnly(m, w, index, hasFiber, prevSibling, newFiber) ==
    IF index = 0 THEN [m EXCEPT !.fibers[w].child = newFiber] ELSE m

\* if (index === 0) wipFiber.child = newFiber; else if (fiber) prevSibling.sibling = newFiber
linkFiber(m, w, index, hasFiber, prevSibling, newFiber) ==
    IF index = 0 THEN [m EXCEPT !.fibers[w].child = newFiber]
    ELSE IF hasFiber THEN [m EXCEPT !.fibers[prevSibling].sibling = newFiber]
    ELSE m

\* the branch that builds newFiber: an UPDATE fiber, a PLACEMENT fiber or none
withNewFiber(m, w, oldFiber, hasFiber, same, el) ==
    IF same THEN [m EXCEPT !.fibers = Append(@, updateFiberOf(m, w, oldFiber, el))]
    ELSE IF hasFiber THEN [m EXCEPT !.fibers = Append(@, placementFiberOf(m, w, oldFiber, el))]
    ELSE m

\* the else-branch's second half: an old fiber that is not reused is deleted
withDeletion(m, oldFiber, same) ==
    IF ~same /\ oldFiber # 0 THEN markDeletion(m, oldFiber) ELSE m

\* the body of the while loop up to the linking, for one index
reconcileOne(m, w, index, oldFiber, prevSibling, hasFiber, same, el, newFiber) ==
    linkFiber(withDeletion(withNewFiber(m, w, oldFiber, hasFiber, same, el), oldFiber, same),
              w, index, hasFiber, prevSibling, newFiber)

\* if (oldFiber) oldFiber = oldFiber.sibling
nextOldFiber(m, oldFiber) == IF oldFiber # 0 THEN m.fibers[oldFiber].sibling ELSE 0

RECURSIVE reconcileLoop(_, _, _, _, _, _)
reconcileLoop(m, w, elements, index, oldFiber, prevSibling) ==
    IF ~(index < Len(elements) \/ oldFiber # 0) THEN m
    ELSE LET hasFiber == index < Len(elements)
             el == elements[index + 1]
             newFiber == IF hasFiber THEN Len(m.fibers) + 1 ELSE 0
         IN reconcileLoop(reconcileOne(m, w, index, oldFiber, prevSibling, hasFiber,
                                       isSameType(m, oldFiber, hasFiber, el), el, newFiber),
                          w, elements, index + 1, nextOldFiber(m, oldFiber), newFiber)

reconcileChildren(m, w, elements) ==
    LET alt == m.fibers[w].alternate
        oldFiber == IF alt # 0 THEN m.fibers[alt].child ELSE 0
    IN reconcileLoop(m, w, elements, 0, oldFiber, 0)

\* mutant: the host node of a reused fiber is updated while rendering
updateHostComponent_eager(m, f) ==
    reconcileChildren(IF m.fibers[f].dom = 0 THEN attachDOM2(m, f)
                      ELSE IF m.fibers[f].type = "ROOT_FIBER" THEN m
                      ELSE updateDOMOf(m, f),
                      f, m.fibers[f].props.children)

updateHostComponent(m, f) ==
    reconcileChildren(IF m.fibers[f].dom = 0 THEN attachDOM2(m, f) ELSE m,
                      f, m.fibers[f].props.children)

(***************************************************************************)
(* Hooks.  An action is a state-transition function; the program's only    *)
(* one is the Counter's c => c + 1.                                        *)
(***************************************************************************)
applyAction(action, state) == IF action = "inc" THEN state + 1 ELSE state

RECURSIVE applyActions(_, _)
applyActions(actions, state) ==
    IF actions = <<>> THEN state
    ELSE applyActions(Tail(actions), applyAction(Head(actions), state))

\* wipFiber.alternate?.hooks?.[hookIndex], as <<hook>> or <<>> when undefined
oldHookOf(m) ==
    LET alt == m.fibers[m.wipFiber].alternate
    IN IF alt # 0 /\ m.hookIndex < Len(m.fibers[alt].hooks)
       THEN <<m.fibers[alt].hooks[m.hookIndex + 1]>>
       ELSE <<>>

\* mutant: the queued actions are not replayed
hookStateOf_noReplay(oldHook, initial) ==
    IF oldHook # <<>> THEN oldHook[1].state ELSE initial

\* the state useState returns
hookStateOf(oldHook, initial) ==
    IF oldHook # <<>>
    THEN applyActions(oldHook[1].queue, oldHook[1].state)
    ELSE initial

\* useState(initial): the machine after the call, the state and the setter returned
useState(m, initial) ==
    LET oldHook == oldHookOf(m)
        hook == [state |-> hookStateOf(oldHook, initial), queue |-> <<>>]
        w == m.wipFiber
    IN [m |-> [m EXCEPT !.fibers[w].hooks = Append(@, hook),
                        !.hookIndex = @ + 1],
        state |-> hook.state,
        setState |-> Handler(w, Len(m.fibers[w].hooks) + 1)]

\* reading a field of undefined
TypeError(m) == [m EXCEPT !.err = TRUE]

\* mutant: the new root takes the props of the root but not its host node
setState_noDom(m, f, i, action) ==
    IF m.currentRoot = 0
    THEN TypeError([m EXCEPT !.fibers[f].hooks[i].queue = Append(@, action)])
    ELSE [m EXCEPT !.fibers = Append([@ EXCEPT ![f].hooks[i].queue = Append(@, action)],
                                     Fiber("ROOT_FIBER", m.fibers[m.currentRoot].props, 0,
                                           0, m.currentRoot, "NONE")),
                   !.wipRoot = Len(m.fibers) + 1,
                   !.deletions = <<>>,
                   !.nextUnitOfWork = Len(m.fibers) + 1]

\* the setter useState returned for hook number i of fiber f
setState(m, f, i, action) ==
    LET m1 == [m EXCEPT !.fibers[f].hooks[i].queue = Append(@, action)]
    IN IF m1.currentRoot = 0 THEN TypeError(m1)
       ELSE LET cur == m1.fibers[m1.currentRoot]
                root == Fiber("ROOT_FIBER", cur.props, cur.dom, 0, m1.currentRoot, "NONE")
                id == Len(m1.fibers) + 1
            IN [m1 EXCEPT !.fibers = Append(@, root),
                          !.wipRoot = id,
                          !.deletions = <<>>,
                          !.nextUnitOfWork = id]

\* function Counter()
\* what Counter returns, given what its useState call returned
CounterReturn(r) == [m |-> r.m, element |-> CounterOutput(r.state, r.setState)]

Counter(m, props) == CounterReturn(useState(m, 1))

\* a component that calls the setter it was given while it renders:
\* function Eager() { const [state, setState] = useState(1)
\*                    setState((c) => c + 1); return <h1>{state}</h1> }
EagerOutput(state) == createElement("h1", NoProps, <<createTextElement(Num(state))>>)

EagerReturn(r) ==
    [m |-> setState(r.m, r.setState.fib, r.setState.n, "inc"), element |-> EagerOutput(r.state)]

Eager(m, props) == EagerReturn(useState(m, 1))

\* wipFiber = fiber; hookIndex = 0; wipFiber.hooks = []
prepareHooks(m, f) == [m EXCEPT !.wipFiber = f, !.hookIndex = 0, !.fibers[f].hooks = <<>>]

\* const children = [fn(fiber.props)]; reconcileChildren(fiber, children)
\* (not reached when fn threw)
reconcileReturned(r, f) ==
    IF r.m.err THEN r.m ELSE reconcileChildren(r.m, f, <<r.element>>)

\* fn(fiber.props), fn being fiber.type
callComponent(m, f) ==
    IF m.fibers[f].type = "Eager" THEN Eager(m, m.fibers[f].props)
    ELSE Counter(m, m.fibers[f].props)

updateFunctionComponent(m, f) == reconcileReturned(callComponent(prepareHooks(m, f), f), f)

\* the upward walk of performUnitOfWork: the next sibling of the nearest ancestor having one
\* mutant: only the fiber's own sibling is looked at
nextSiblingUp_noClimb(m, nextFiber) ==
    IF nextFiber = 0 THEN 0 ELSE m.fibers[nextFiber].sibling

RECURSIVE nextSiblingUp(_, _)
nextSiblingUp(m, nextFiber) ==
    IF nextFiber = 0 THEN 0
    ELSE IF m.fibers[nextFiber].sibling # 0 THEN m.fibers[nextFiber].sibling
    ELSE nextSiblingUp(m, m.fibers[nextFiber].parent)

\* performUnitOfWork(fiber): the machine after it, with nextUnitOfWork set to what it returns
\* the second half of performUnitOfWork: the child, or the next sibling upwards
returnNextUnit(m, f) ==
    IF m.err THEN m
    ELSE
    [m EXCEPT !.nextUnitOfWork = IF m.fibers[f].child # 0 THEN m.fibers[f].child
                                 ELSE nextSiblingUp(m, f),
              !.processed = Append(@, f)]

performUnitOfWork(m, f) ==
    returnNextUnit(IF isFunctionComponent(m.fibers[f].type)
                   THEN updateFunctionComponent(m, f)
                   ELSE updateHostComponent(m, f),
                   f)

(***************************************************************************)
(* The commit phase.                                                       *)
(***************************************************************************)
\* the host node of the nearest fiber, from pf upwards, that owns one (0: walked off the top)
\* mutant: only the parent itself is asked for its host node
domParentOf_direct(m, pf) == IF pf = 0 THEN 0 ELSE m.fibers[pf].dom

RECURSIVE domParentOf(_, _)
domParentOf(m, pf) ==
    IF pf = 0 THEN 0
    ELSE IF m.fibers[pf].dom # 0 THEN m.fibers[pf].dom
    ELSE domParentOf(m, m.fibers[pf].parent)

RECURSIVE commitDeletion(_, _, _, _)
commitDeletion(m, top, f, domParent) ==
    IF m.err THEN m
    ELSE IF f = 0 THEN TypeError(m)
    ELSE IF m.fibers[f].dom # 0 THEN removeChild(m, top, domParent, m.fibers[f].dom)
    ELSE commitDeletion(m, top, m.fibers[f].child, domParent)

\* the effect commitWork applies for one fiber
commitEffect(m, f, domParent) ==
    LET fiber == m.fibers[f]
    IN IF fiber.effectTag = "PLACEMENT" /\ fiber.dom # 0
       THEN appendChild(m, f, domParent, fiber.dom)
       ELSE IF fiber.effectTag = "UPDATE" /\ fiber.dom # 0
       THEN updateDOMOf(m, f)
       ELSE IF fiber.effectTag = "DELETION"
       THEN commitDeletion(m, f, f, domParent)
       ELSE m

\* commitWork up to its two recursive calls
commitOne(m, f, domParent) ==
    IF domParent = 0 THEN TypeError(m) ELSE commitEffect(m, f, domParent)

RECURSIVE commitWork(_, _)
commitWork(m, f) ==
    IF f = 0 \/ m.err THEN m
    ELSE commitWork(commitWork(commitOne(m, f, domParentOf(m, m.fibers[f].parent)),
                               m.fibers[f].child),
                    m.fibers[f].sibling)

\* deletions.forEach(commitWork)
RECURSIVE commitDeletions(_, _)
commitDeletions(m, list) ==
    IF list = <<>> THEN m
    ELSE commitDeletions(commitWork(m, Head(list)), Tail(list))

\* commitWork(wipRoot.child)
commitTree(m) == commitWork(m, m.fibers[m.wipRoot].child)

\* currentRoot = wipRoot; wipRoot = undefined (not reached when the commit threw)
finishCommit(m) ==
    IF m.err THEN m ELSE [m EXCEPT !.currentRoot = m.wipRoot, !.wipRoot = 0]

commitRoot(m) ==
    finishCommit(commitTree(commitDeletions([m EXCEPT !.committed = TRUE], m.deletions)))

(***************************************************************************)
(* The work loop.  The deadline of a slice is given by n: timeRemaining()  *)
(* first reports less than 1 after the n-th unit of work of the slice      *)
(* (n = 0: it never does in this slice).                                   *)
(***************************************************************************)
shouldYieldAfter(n, done) == n # 0 /\ done >= n

\* mutant: a slice that yields does not store the fiber performUnitOfWork returned
RECURSIVE workLoopWhile_dropsNext(_, _, _)
workLoopWhile_dropsNext(m, n, done) ==
    IF m.nextUnitOfWork = 0 \/ shouldYieldAfter(n, done) \/ m.err THEN m
    ELSE IF shouldYieldAfter(n, done + 1)
    THEN [performUnitOfWork(m, m.nextUnitOfWork) EXCEPT !.nextUnitOfWork = m.nextUnitOfWork]
    ELSE workLoopWhile_dropsNext(performUnitOfWork(m, m.nextUnitOfWork), n, done + 1)

RECURSIVE workLoopWhile(_, _, _)
workLoopWhile(m, n, done) ==
    IF m.nextUnitOfWork = 0 \/ shouldYieldAfter(n, done) \/ m.err THEN m
    ELSE workLoopWhile(performUnitOfWork(m, m.nextUnitOfWork), n, done + 1)

\* if (!nextUnitOfWork && wipRoot) commitRoot()
commitIfDone(m) == IF m.nextUnitOfWork = 0 /\ m.wipRoot # 0 THEN commitRoot(m) ELSE m

workLoop(m, n) == commitIfDone(workLoopWhile(m, n, 0))

(***************************************************************************)
(* render and the state setter.                                            *)
(***************************************************************************)
\* mutant: the globals are assigned before the container is looked at
render_assignsFirst(m, element, container) ==
    IF container = 0
    THEN [m EXCEPT !.err = TRUE, !.wipRoot = 0, !.deletions = <<>>, !.nextUnitOfWork = 0]
    ELSE [m EXCEPT !.fibers = Append(@, Fiber("ROOT_FIBER", [children |-> <<element>>],
                                              container, 0, m.currentRoot, "NONE")),
                   !.wipRoot = Len(m.fibers) + 1,
                   !.deletions = <<>>,
                   !.nextUnitOfWork = Len(m.fibers) + 1]

\* mutant: the deletions of the pass before are kept
render_keepsDeletions(m, element, container) ==
    IF container = 0 THEN [m EXCEPT !.err = TRUE]
    ELSE [m EXCEPT !.fibers = Append(@, Fiber("ROOT_FIBER", [children |-> <<element>>],
                                              container, 0, m.currentRoot, "NONE")),
                   !.wipRoot = Len(m.fibers) + 1,
                   !.nextUnitOfWork = Len(m.fibers) + 1]

render(m, element, container) ==
    IF container = 0 THEN [m EXCEPT !.err = TRUE]
    ELSE LET root == Fiber("ROOT_FIBER", [children |-> <<element>>], container,
                           0, m.currentRoot, "NONE")
             id == Len(m.fibers) + 1
         IN [m EXCEPT !.fibers = Append(@, root),
                      !.wipRoot = id,
                      !.deletions = <<>>,
                      !.nextUnitOfWork = id]

\* the Counter's onClick: () => { setState((c) => c + 1) }
onClick(m, handler) == setState(m, handler.fib, handler.n, "inc")

(***************************************************************************)
(* The element trees handed to render.                                     *)
(***************************************************************************)
Leaf(type) == createElement(type, NoProps, <<>>)
DivProps == [title |-> Str("t"), onClick |-> Handler(0, 0)]
Div(children) == createElement("div", DivProps, children)

RootElements ==
    { Div(<<Leaf("a"), Leaf("b"), Leaf("c")>>),
      Div(<<Leaf("a"), Leaf("c")>>),
      Div(<<createElement("p", NoProps, <<createTextElement(Str("x"))>>), Leaf("b")>>),
      Div(<<Leaf("span"), Leaf("b")>>),
      createElement("Counter", NoProps, <<>>) }

(***************************************************************************)
(* The state machine.                                                      *)
(***************************************************************************)
VARIABLES
    fibers,          \* the heap of fiber objects
    doms,            \* the heap of host nodes
    nextUnitOfWork,  \* let nextUnitOfWork
    wipRoot,         \* let wipRoot
    currentRoot,     \* let currentRoot
    deletions,       \* let deletions
    wipFiber,        \* let wipFiber
    hookIndex,       \* let hookIndex
    idleScheduled,   \* whether a requestIdleCallback(workLoop) is pending
    heapMark,        \* the sizes of the two heaps when the pass in flight was started
    lastStep,        \* history: what the last handler did
    commits          \* history: how many times commitRoot was called

vars == <<fibers, doms, nextUnitOfWork, wipRoot, currentRoot, deletions, wipFiber,
          hookIndex, idleScheduled, heapMark, lastStep, commits>>

\* the machine a handler starts from
Machine ==
    [fibers |-> fibers, doms |-> doms, nextUnitOfWork |-> nextUnitOfWork,
     wipRoot |-> wipRoot, currentRoot |-> currentRoot, deletions |-> deletions,
     wipFiber |-> wipFiber, hookIndex |-> hookIndex,
     ops |-> <<>>, err |-> FALSE, processed |-> <<>>, committed |-> FALSE]

(***************************************************************************)
(* Garbage.  render and the setter overwrite wipRoot and nextUnitOfWork,   *)
(* the only references to the fibers of a pass that has not committed, and *)
(* through them to the host nodes that pass created; no object of a        *)
(* committed tree and no attached node refers to them (ReclaimIsSound      *)
(* below states this of every reachable state).  The runtime reclaims      *)
(* them: the heaps shrink back to their sizes at the start of the          *)
(* abandoned pass, and the indices are used again.  The fibers of every    *)
(* committed tree stay reachable through the alternate links.              *)
(***************************************************************************)
Reclaimed(m) ==
    IF m.wipRoot = 0 THEN m
    ELSE [m EXCEPT !.fibers = SubSeq(@, 1, heapMark.fibers),
                   !.doms = SubSeq(@, 1, heapMark.doms)]

\* history: the handler that ran last, what it was given (arg: the element and
\* the container of a render, the setter a click called) and what it did
StepOf(kind, n, m) ==
    [kind |-> kind, n |-> n, arg |-> NoProps, processed |-> m.processed, ops |-> m.ops,
     committed |-> m.committed, threw |-> m.err]

\* the globals and the document as the handler left them
Install(m) ==
    /\ fibers' = m.fibers
    /\ doms' = m.doms
    /\ nextUnitOfWork' = m.nextUnitOfWork
    /\ wipRoot' = m.wipRoot
    /\ currentRoot' = m.currentRoot
    /\ deletions' = m.deletions
    /\ wipFiber' = m.wipFiber
    /\ hookIndex' = m.hookIndex

\* the nodes of the live host tree: the container and everything below it
RECURSIVE Below(_, _)
Below(D, node) ==
    {node} \cup UNION {Below(D, D[node].children[i]) : i \in 1..Len(D[node].children)}

Attached(D) == Below(D, Container)

Init ==
    /\ fibers = <<>>
    /\ doms = <<NewNode("container")>>
    /\ nextUnitOfWork = 0
    /\ wipRoot = 0
    /\ currentRoot = 0
    /\ deletions = <<>>
    /\ wipFiber = 0
    /\ hookIndex = 0
    /\ idleScheduled = TRUE
    /\ heapMark = [fibers |-> 0, doms |-> 1]
    /\ lastStep = StepOf("init", 0, Machine)
    /\ commits = 0

\* what render and the setter share: the new pass and the heap mark
StartPass(kind, arg, before, m) ==
    /\ Install(m)
    /\ lastStep' = [StepOf(kind, 0, m) EXCEPT !.arg = arg]
    /\ heapMark' = IF m.err THEN heapMark
                   ELSE [fibers |-> Len(before.fibers), doms |-> Len(before.doms)]
    /\ UNCHANGED <<idleScheduled, commits>>

\* Didact.render(element, container)
Render(element, container) ==
    /\ commits < MaxCommits
    /\ LET before == IF container = 0 THEN Machine ELSE Reclaimed(Machine)
       IN StartPass("render", [element |-> element, container |-> container], before, render(before, element, container))

\* a click event delivered to an attached node that has a setter-calling listener
Click(node, handler) ==
    /\ commits < MaxCommits
    /\ node \in Attached(doms)
    /\ <<"click", handler>> \in doms[node].listeners
    /\ handler.fib # 0
    /\ Len(fibers[handler.fib].hooks[handler.n].queue) < MaxQueue
    /\ LET before == IF currentRoot = 0 THEN Machine ELSE Reclaimed(Machine)
       IN StartPass("click", handler, before, onClick(before, handler))

\* one idle slice: the host calls workLoop(deadline)
\* the state after an idle slice; a slice that threw never re-registered the callback
EndSlice(n, m) ==
    /\ Install(m)
    /\ lastStep' = StepOf("workLoop", n, m)
    /\ idleScheduled' = ~m.err
    /\ commits' = IF m.committed THEN commits + 1 ELSE commits

WorkLoop(n) ==
    /\ idleScheduled
    /\ EndSlice(n, workLoop(Machine, n))
    /\ UNCHANGED heapMark

Next ==
    \/ \E element \in RootElements : Render(element, Container)
    \/ Render(CHOOSE element \in RootElements : TRUE, 0)
    \/ \E node \in 1..Len(doms) : \E l \in doms[node].listeners : Click(node, l[2])
    \/ \E n \in Deadlines : WorkLoop(n)

Spec == Init /\ [][Next]_vars

(***************************************************************************)
(* The property diff on its own.  One host node (node 2, a div) and the    *)
(* fiber that owns it; each step is what commitWork does for an UPDATE     *)
(* fiber: a new fiber with the next property bag takes the node over from  *)
(* its alternate and updateDOMOf is applied to it.  fibers holds the       *)
(* alternate (when there is one) and the current fiber, in that order.     *)
(***************************************************************************)
BagValues(key) ==
    IF key = "onClick" THEN {Handler(0, 1), Handler(0, 2)}
    ELSE IF key = "title" THEN {Str("t"), Num(2)}
    ELSE {Str("s")}

\* the property bags createElement builds from the names onClick, title and style
PropBags ==
    UNION {{createElement("div", p, <<>>).props :
              p \in {q \in [D -> UNION {BagValues(key) : key \in D}] :
                        \A key \in D : q[key] \in BagValues(key)}} :
           D \in SUBSET {"onClick", "title", "style"}}

DiffInit ==
    /\ fibers = <<Fiber("div", [children |-> <<>>], 2, 0, 0, "PLACEMENT")>>
    /\ doms = <<NewNode("container"), NewNode("div")>>
    /\ nextUnitOfWork = 0
    /\ wipRoot = 0
    /\ currentRoot = 0
    /\ deletions = <<>>
    /\ wipFiber = 0
    /\ hookIndex = 0
    /\ idleScheduled = FALSE
    /\ heapMark = [fibers |-> 0, doms |-> 2]
    /\ lastStep = StepOf("init", 0, Machine)
    /\ commits = 0

EndDiff(m) ==
    /\ Install(m)
    /\ lastStep' = StepOf("updateDOMOf", 0, m)
    /\ UNCHANGED <<idleScheduled, heapMark, commits>>

\* commitWork for an UPDATE fiber with props next: updateDOMOf(fiber)
DiffStep(next) ==
    EndDiff(updateDOMOf([Machine EXCEPT
                            !.fibers = <<[fibers[Len(fibers)] EXCEPT !.alternate = 0],
                                         Fiber("div", next, fibers[Len(fibers)].dom,
                                               0, 1, "UPDATE")>>],
                        2))

DiffNext == \E next \in PropBags : DiffStep(next)

SpecDiff == DiffInit /\ [][DiffNext]_vars

(***************************************************************************)
(* reconcileChildren on its own.  A host fiber (a div that owns node 2)    *)
(* is rendered again and again, each time with another list of children:   *)
(* a step is updateHostComponent for a new fiber whose alternate is the    *)
(* fiber of the step before, which currentRoot names.                      *)
(***************************************************************************)
\* the lists of at most MaxChildren leaves named a or b
ChildLists ==
    UNION {{[i \in 1..n |-> Leaf(types[i])] : types \in [1..n -> {"a", "b"}]} :
           n \in 0..MaxChildren}

ReconInit ==
    /\ fibers = <<Fiber("div", [children |-> <<>>], 2, 0, 0, "PLACEMENT")>>
    /\ doms = <<NewNode("container"), NewNode("div")>>
    /\ nextUnitOfWork = 0
    /\ wipRoot = 0
    /\ currentRoot = 1
    /\ deletions = <<>>
    /\ wipFiber = 0
    /\ hookIndex = 0
    /\ idleScheduled = FALSE
    /\ heapMark = [fibers |-> 0, doms |-> 2]
    /\ lastStep = StepOf("init", 0, Machine)
    /\ commits = 0

EndRecon(w, m) ==
    /\ Install([m EXCEPT !.currentRoot = w])
    /\ lastStep' = StepOf("reconcileChildren", 0, [m EXCEPT !.processed = <<w>>])
    /\ commits' = commits + 1
    /\ UNCHANGED <<idleScheduled, heapMark>>

\* updateHostComponent(fiber) for a fiber that has its node: reconcileChildren(fiber, children)
ReconStep(elements) ==
    /\ commits < MaxCommits
    /\ EndRecon(Len(fibers) + 1,
                updateHostComponent(
                    [Machine EXCEPT
                        !.fibers = Append(@, Fiber("div", [children |-> elements],
                                                   fibers[currentRoot].dom, 0, currentRoot,
                                                   "UPDATE")),
                        !.deletions = <<>>],
                    Len(fibers) + 1))

ReconNext == \E elements \in ChildLists : ReconStep(elements)

SpecReconcile == ReconInit /\ [][ReconNext]_vars

(***************************************************************************)
(* A component that calls its setter while it renders.  The programs       *)
(* rendered are the Eager component, alone and below a div, and a plain    *)
(* div.                                                                    *)
(***************************************************************************)
EagerElements ==
    { Leaf("Eager"),
      Div(<<Leaf("Eager"), Leaf("b")>>),
      Div(<<Leaf("a"), Leaf("c")>>) }

EagerNext ==
    \/ \E element \in EagerElements : Render(element, Container)
    \/ \E n \in Deadlines : WorkLoop(n)

SpecEager == Init /\ [][EagerNext]_vars

(***************************************************************************)
(* Passes left alone.  render and the setter are called only when no pass  *)
(* is in flight, so a pass, once started, meets nothing but idle slices.   *)
(* The specification is fair to them: workLoop registers itself with       *)
(* requestIdleCallback, and the host runs a registered callback sooner or  *)
(* later, with whatever deadline it likes.                                 *)
(***************************************************************************)
IdleSlice == \E n \in Deadlines : WorkLoop(n)

QuietNext ==
    \/ wipRoot = 0 /\ \E element \in RootElements : Render(element, Container)
    \/ wipRoot = 0 /\ \E node \in 1..Len(doms) : \E l \in doms[node].listeners : Click(node, l[2])
    \/ IdleSlice

SpecQuiet == Init /\ [][QuietNext]_vars /\ WF_vars(IdleSlice)

(***************************************************************************)
(* Well-formedness of the heaps, and soundness of reclaiming: while a pass *)
(* is in flight, nothing outside it refers to a fiber or a node it         *)
(* allocated.                                                              *)
(***************************************************************************)
HandlersIn(props) == {props[key] : key \in {key \in DOMAIN props : isEvent(key)}}

HeapIsWellFormed ==
    /\ \A f \in 1..Len(fibers) :
          /\ {fibers[f].parent, fibers[f].child, fibers[f].sibling, fibers[f].alternate}
                \subseteq 0..Len(fibers)
          /\ fibers[f].dom \in 0..Len(doms)
          /\ \A h \in HandlersIn(fibers[f].props) : h.fib \in 0..Len(fibers)
    /\ {nextUnitOfWork, wipRoot, currentRoot} \subseteq 0..Len(fibers)
    /\ \A i \in 1..Len(deletions) : deletions[i] \in 1..Len(fibers)
    /\ \A node \in 1..Len(doms) :
          /\ \A i \in 1..Len(doms[node].children) : doms[node].children[i] \in 1..Len(doms)
          /\ doms[node].parentNode \in 0..Len(doms)
          /\ \A l \in doms[node].listeners :
                /\ l[2].fib \in 0..Len(fibers)
                /\ l[2].fib # 0 => l[2].n \in 1..Len(fibers[l[2].fib].hooks)

ReclaimIsSound ==
    wipRoot # 0 =>
        /\ wipRoot = heapMark.fibers + 1
        /\ currentRoot \in 0..heapMark.fibers
        /\ \A f \in 1..heapMark.fibers :
              /\ {fibers[f].parent, fibers[f].child, fibers[f].sibling, fibers[f].alternate}
                    \subseteq 0..heapMark.fibers
              /\ fibers[f].dom \in 0..heapMark.doms
              /\ \A h \in HandlersIn(fibers[f].props) : h.fib \in 0..heapMark.fibers
        /\ \A node \in 1..heapMark.doms :
              /\ \A i \in 1..Len(doms[node].children) :
                    doms[node].children[i] \in 1..heapMark.doms
              /\ doms[node].parentNode \in 0..heapMark.doms
              /\ \A l \in doms[node].listeners : l[2].fib \in 0..heapMark.fibers

(***************************************************************************)
(* Vocabulary of the properties.                                           *)
(***************************************************************************)
\* the fibers of the sibling chain that starts at f
RECURSIVE Chain(_, _)
Chain(F, f) == IF f = 0 THEN <<>> ELSE <<f>> \o Chain(F, F[f].sibling)

ChildrenOf(F, f) == Chain(F, F[f].child)

\* the fibers of the tree below (and including) f
RECURSIVE TreeOf(_, _)
TreeOf(F, f) ==
    {f} \cup UNION {TreeOf(F, ChildrenOf(F, f)[i]) : i \in 1..Len(ChildrenOf(F, f))}

\* the host node of the nearest host-owning fiber from f downwards (0: there is none)
RECURSIVE HostNodeOf(_, _)
HostNodeOf(F, f) ==
    IF f = 0 THEN 0
    ELSE IF F[f].dom # 0 THEN F[f].dom
    ELSE HostNodeOf(F, F[f].child)

Range(seq) == {seq[i] : i \in 1..Len(seq)}

OpsOf(kinds) == {i \in 1..Len(lastStep.ops) : lastStep.ops[i].op \in kinds}

\* the last handler was an idle slice that called commitRoot
JustCommitted == lastStep.kind = "workLoop" /\ lastStep.committed

\* what is on screen: kinds, text values and order of the nodes below a host node
RECURSIVE HostShape(_, _)
HostShape(D, node) ==
    [kind |-> D[node].kind,
     text |-> IF D[node].kind = "#text" THEN D[node].props.nodeValue ELSE Str(""),
     children |-> [i \in 1..Len(D[node].children) |-> HostShape(D, D[node].children[i])]]

\* the same for the element tree a fiber tree was rendered from, function
\* components replaced by their output
RECURSIVE ElementShapes(_, _)
ElementShapes(F, chain) ==
    IF chain = <<>> THEN <<>>
    ELSE LET f == Head(chain)
             here == IF isFunctionComponent(F[f].type)
                     THEN ElementShapes(F, ChildrenOf(F, f))
                     ELSE <<[kind |-> IF F[f].type = "TEXT_FIBER" THEN "#text" ELSE F[f].type,
                             text |-> IF F[f].type = "TEXT_FIBER"
                                      THEN DomCoerce(F[f].props.nodeValue) ELSE Str(""),
                             children |-> ElementShapes(F, ChildrenOf(F, f))]>>
         IN here \o ElementShapes(F, Tail(chain))

(***************************************************************************)
(* C1.  During a commit the host node of every fiber of the deletions list *)
(* is removed exactly once: every removeChild finds its node a child of    *)
(* the chosen parent, and no node is passed to removeChild twice.          *)
(***************************************************************************)
C1_EachDeletionRemovedOnce ==
    JustCommitted =>
        /\ \A i \in OpsOf({"removeChild"}) : lastStep.ops[i].ok
        /\ \A d \in Range(deletions) :
              Cardinality({i \in OpsOf({"removeChild"}) :
                              lastStep.ops[i].node = HostNodeOf(fibers, d)}) = 1

(***************************************************************************)
(* C2.  After a commit whose deletions list holds a function-kind fiber,   *)
(* the host node of that fiber's nearest host-owning descendant is not     *)
(* attached anywhere below the container.                                  *)
(***************************************************************************)
C2_DeletedComponentDetached ==
    (JustCommitted /\ ~lastStep.threw) =>
        \A d \in Range(deletions) :
            isFunctionComponent(fibers[d].type) =>
                HostNodeOf(fibers, d) \notin Attached(doms)

(***************************************************************************)
(* C3.  After every commit the live host tree below the container has the  *)
(* kinds, text values and order of the last rendered element tree,         *)
(* function components replaced by their output.                           *)
(***************************************************************************)
C3_HostMirrorsElements ==
    (JustCommitted /\ ~lastStep.threw) =>
        HostShape(doms, Container).children
            = ElementShapes(fibers, ChildrenOf(fibers, currentRoot))

(***************************************************************************)
(* C4.  reconcileChildren decides every position by position alone.  For   *)
(* each fiber processed in the last slice, with the child chain of its     *)
(* alternate as the previous list: a position where the old fiber and the  *)
(* element both exist with equal type holds an UPDATE fiber whose          *)
(* alternate is the old fiber and whose host node is the old fiber's, and  *)
(* the old fiber is not in deletions; any other position with an element   *)
(* holds a PLACEMENT fiber without alternate and without a reused host     *)
(* node; and every old fiber without such a match is tagged DELETION and   *)
(* is in deletions exactly once.                                           *)
(***************************************************************************)
\* the argument the initial call of Counter gives useState
CounterInitial == 1

\* the elements reconcileChildren was given for fiber w
ElementsOf(F, w) ==
    IF isFunctionComponent(F[w].type)
    THEN <<CounterOutput(F[w].hooks[1].state, Handler(w, 1))>>
    ELSE F[w].props.children

Larger(a, b) == IF a >= b THEN a ELSE b

Occurrences(seq, x) == Cardinality({i \in 1..Len(seq) : seq[i] = x})

PositionalAt(w) ==
    LET olds == IF fibers[w].alternate # 0 THEN ChildrenOf(fibers, fibers[w].alternate)
                ELSE <<>>
        els == ElementsOf(fibers, w)
        news == ChildrenOf(fibers, w)
    IN /\ Len(news) = Len(els)
       /\ \A i \in 1..Larger(Len(olds), Len(els)) :
            LET hasOld == i <= Len(olds)
                hasEl == i <= Len(els)
                match == hasOld /\ hasEl /\ els[i].type = fibers[olds[i]].type
            IN /\ match =>
                    /\ fibers[news[i]].effectTag = "UPDATE"
                    /\ fibers[news[i]].alternate = olds[i]
                    /\ fibers[news[i]].dom = fibers[olds[i]].dom
                    /\ olds[i] \notin Range(deletions)
               /\ (hasEl /\ ~match) =>
                    /\ fibers[news[i]].effectTag = "PLACEMENT"
                    /\ fibers[news[i]].alternate = 0
                    /\ fibers[news[i]].dom = 0 \/ fibers[news[i]].dom > heapMark.doms
                    /\ news[i] \notin Range(lastStep.processed) => fibers[news[i]].dom = 0
               /\ (hasOld /\ ~match) =>
                    /\ fibers[olds[i]].effectTag = "DELETION"
                    /\ Occurrences(deletions, olds[i]) = 1

C4_PositionalDiff ==
    lastStep.kind = "workLoop" => \A w \in Range(lastStep.processed) : PositionalAt(w)

TypesOf(F, chain) == [i \in 1..Len(chain) |-> F[chain[i]].type]

\* previous [a, b, c], next [a, c]: a UPDATE, c PLACEMENT, old b and old c DELETION
C4_Witness ==
    /\ lastStep.kind = "workLoop"
    /\ \E w \in Range(lastStep.processed) :
          /\ fibers[w].alternate # 0
          /\ TypesOf(fibers, ChildrenOf(fibers, fibers[w].alternate)) = <<"a", "b", "c">>
          /\ TypesOf(fibers, ChildrenOf(fibers, w)) = <<"a", "c">>
          /\ [i \in 1..2 |-> fibers[ChildrenOf(fibers, w)[i]].effectTag]
                = <<"UPDATE", "PLACEMENT">>
          /\ SubSeq(ChildrenOf(fibers, fibers[w].alternate), 2, 3) = deletions

(***************************************************************************)
(* C5.  A slice processes the fibers up to the point where timeRemaining() *)
(* first drops below 1 and no more, the next slice resumes from the fiber  *)
(* the last performUnitOfWork returned, and wherever a slice stops, the    *)
(* pass ends with the fiber heap, host document and committed root that    *)
(* running it in one uninterrupted slice from the state before gives.      *)
(***************************************************************************)
Outcome(m) == [fibers |-> m.fibers, doms |-> m.doms, currentRoot |-> m.currentRoot,
               wipRoot |-> m.wipRoot, threw |-> m.err]

C5_SlicesEquivalent ==
    [][lastStep'.kind = "workLoop" =>
         /\ lastStep'.n # 0 => Len(lastStep'.processed) <= lastStep'.n
         /\ nextUnitOfWork' # 0 =>
               lastStep'.n # 0 /\ Len(lastStep'.processed) = lastStep'.n
         /\ nextUnitOfWork # 0 =>
               lastStep'.processed # <<>> /\ lastStep'.processed[1] = nextUnitOfWork
         /\ Outcome(workLoop(Machine', 0)) = Outcome(workLoop(Machine, 0))]_vars

\* a pass that was split commits: the committing slice did not start at the root
C5_Witness ==
    /\ JustCommitted
    /\ ~lastStep.threw
    /\ lastStep.processed # <<>>
    /\ lastStep.processed[1] # currentRoot
    /\ Len(deletions) > 0

(***************************************************************************)
(* C6.  Until commitRoot begins the live host tree is unchanged: a handler *)
(* that does not commit leaves every attached node as it was, the render   *)
(* phase performs no appendChild or removeChild and touches no attached    *)
(* node, and the nodes created by the pass in flight stay detached.        *)
(***************************************************************************)
LiveTree(D) == [node \in Attached(D) |-> D[node]]

C6_NoMutationBeforeCommit ==
    [][/\ ~lastStep'.committed => LiveTree(doms') = LiveTree(doms)
       /\ \A i \in 1..Len(lastStep'.ops) :
             lastStep'.ops[i].phase = "render" =>
                /\ lastStep'.ops[i].op \notin {"appendChild", "removeChild"}
                /\ lastStep'.ops[i].node \notin Attached(doms)
       /\ (wipRoot' # 0 /\ ~lastStep'.committed) =>
             \A node \in (heapMark'.doms + 1)..Len(doms') : node \notin Attached(doms')]_vars

\* mid-pass over a non-empty live tree, with nodes already created by the pass
C6_Witness ==
    /\ lastStep.kind = "workLoop"
    /\ ~lastStep.committed
    /\ currentRoot # 0
    /\ nextUnitOfWork # 0
    /\ Len(doms) > heapMark.doms
    /\ \E f \in Range(lastStep.processed) : fibers[f].effectTag = "UPDATE"

(***************************************************************************)
(* C7.  render or a setter replaces wipRoot only when no pass is in        *)
(* flight: whenever one of them starts a pass, wipRoot was absent before.  *)
(***************************************************************************)
C7_NoPassSuperseded ==
    [][(lastStep'.kind \in {"render", "click"} /\ ~lastStep'.threw) => wipRoot = 0]_vars

(***************************************************************************)
(* C8.  A function-kind fiber's hook starts from the state of the same     *)
(* hook of its alternate (from the initial argument when there is none),   *)
(* applies the old hook's queued actions in queue order, returns that fold *)
(* and starts with an empty queue.                                         *)
(***************************************************************************)
\* the fold of the first k actions of queue, in queue order
RECURSIVE FoldActions(_, _, _)
FoldActions(queue, k, state) ==
    IF k = 0 THEN state
    ELSE applyAction(queue[k], FoldActions(queue, k - 1, state))

ReplayedState(w) ==
    LET alt == fibers[w].alternate
    IN IF alt # 0 /\ Len(fibers[alt].hooks) >= 1
       THEN FoldActions(fibers[alt].hooks[1].queue, Len(fibers[alt].hooks[1].queue),
                        fibers[alt].hooks[1].state)
       ELSE CounterInitial

\* the state the component was handed: the number its output shows
ShownState(w) == fibers[fibers[w].child].props.children[2].props.nodeValue

C8_HookReplay ==
    lastStep.kind = "workLoop" =>
        \A w \in Range(lastStep.processed) :
            isFunctionComponent(fibers[w].type) =>
                /\ Len(fibers[w].hooks) = 1
                /\ fibers[w].hooks[1].state = ReplayedState(w)
                /\ fibers[w].hooks[1].queue = <<>>
                /\ ShownState(w) = Num(ReplayedState(w))

\* a hook with state 1 and two queued increments returns 3
C8_Witness ==
    /\ lastStep.kind = "workLoop"
    /\ \E w \in Range(lastStep.processed) :
          /\ isFunctionComponent(fibers[w].type)
          /\ fibers[w].alternate # 0
          /\ fibers[fibers[w].alternate].hooks[1] = [state |-> 1, queue |-> <<"inc", "inc">>]
          /\ fibers[w].hooks[1].state = 3

(***************************************************************************)
(* C9.  Every fiber tagged UPDATE carries the host node of its alternate,  *)
(* and a pass in which every tree position kept its kind creates no host   *)
(* node: its commit attaches and detaches nothing, and assigns only the    *)
(* properties whose values changed.                                        *)
(***************************************************************************)
\* the committed tree kept the kind of every position of the tree before it
KeptEveryKind ==
    /\ deletions = <<>>
    /\ \A f \in TreeOf(fibers, currentRoot) \ {currentRoot} : fibers[f].effectTag = "UPDATE"

C9_UpdateReusesHostNode ==
    /\ \A f \in 1..Len(fibers) :
          fibers[f].effectTag = "UPDATE" =>
              /\ fibers[f].alternate # 0
              /\ fibers[f].dom = fibers[fibers[f].alternate].dom
    /\ (JustCommitted /\ ~lastStep.threw /\ KeptEveryKind) =>
          /\ Len(doms) = heapMark.doms
          /\ OpsOf({"create", "appendChild", "removeChild"}) = {}
          /\ \A i \in OpsOf({"setProperty"}) :
                LET f == lastStep.ops[i].fiber
                IN /\ lastStep.ops[i].node = fibers[f].dom
                   /\ isNew(fibers[fibers[f].alternate].props, fibers[f].props,
                            lastStep.ops[i].key)

\* the Counter after one click: the same nodes, the text node now showing 2
C9_Witness ==
    /\ JustCommitted
    /\ ~lastStep.threw
    /\ KeptEveryKind
    /\ \E i \in OpsOf({"setProperty"}) :
          /\ lastStep.ops[i].key = "nodeValue"
          /\ lastStep.ops[i].node \in Attached(doms)
          /\ doms[lastStep.ops[i].node].props.nodeValue = Str("2")

(***************************************************************************)
(* C10.  Rendering again the element tree of host nodes that is on screen  *)
(* tags every fiber UPDATE, leaves deletions empty, creates no node, and   *)
(* its commit performs no host operation at all: the live host tree after  *)
(* the second commit is the one before it.                                 *)
(***************************************************************************)
\* the committed root was rendered from the very elements of the root before it
RerenderedIdentical ==
    /\ currentRoot # 0
    /\ fibers[currentRoot].alternate # 0
    /\ fibers[fibers[currentRoot].alternate].props = fibers[currentRoot].props
    /\ \A f \in TreeOf(fibers, currentRoot) : ~isFunctionComponent(fibers[f].type)

C10_IdenticalRerenderIsNoOp ==
    [][(JustCommitted' /\ ~lastStep'.threw /\ RerenderedIdentical') =>
          /\ \A f \in TreeOf(fibers', currentRoot') \ {currentRoot'} :
                fibers'[f].effectTag = "UPDATE"
          /\ deletions' = <<>>
          /\ Len(doms') = heapMark'.doms
          /\ \A i \in 1..Len(lastStep'.ops) : lastStep'.ops[i].phase # "commit"
          /\ LiveTree(doms') = LiveTree(doms)]_vars

\* div[a, b, c] with its title and listener, committed twice in a row
C10_Witness ==
    /\ JustCommitted
    /\ ~lastStep.threw
    /\ RerenderedIdentical
    /\ TypesOf(fibers, ChildrenOf(fibers, fibers[currentRoot].child)) = <<"a", "b", "c">>
    /\ "title" \in DOMAIN fibers[fibers[currentRoot].child].props

(***************************************************************************)
(* C11.  A setter call appends its action to the queue of the hook it      *)
(* closes over and, in the same step, makes wipRoot a new root fiber with  *)
(* the host node and props of currentRoot and currentRoot as alternate,    *)
(* makes it nextUnitOfWork and empties deletions; it processes no fiber    *)
(* and performs no host operation, and every other fiber, currentRoot and  *)
(* the host document are as before.                                        *)
(***************************************************************************)
\* the fibers a handler found: those of a pass it abandons are not among them
FibersBefore == SubSeq(fibers, 1, IF wipRoot # 0 THEN heapMark.fibers ELSE Len(fibers))

DomsBefore == SubSeq(doms, 1, IF wipRoot # 0 THEN heapMark.doms ELSE Len(doms))

C11_SetterSchedulesPass ==
    [][lastStep'.kind = "click" =>
         LET h == lastStep'.arg
             cur == fibers[currentRoot]
         IN /\ ~lastStep'.threw
            /\ wipRoot' = Len(FibersBefore) + 1
            /\ fibers' = Append([FibersBefore EXCEPT
                                    ![h.fib].hooks[h.n].queue = Append(@, "inc")],
                                Fiber("ROOT_FIBER", cur.props, cur.dom, 0, currentRoot, "NONE"))
            /\ nextUnitOfWork' = wipRoot'
            /\ deletions' = <<>>
            /\ currentRoot' = currentRoot
            /\ doms' = DomsBefore
            /\ lastStep'.processed = <<>>
            /\ lastStep'.ops = <<>>]_vars

\* a second click before any idle slice: the queue holds two actions, and the
\* deletions of the commit before were dropped
C11_Witness ==
    /\ lastStep.kind = "click"
    /\ ~lastStep.threw
    /\ Len(fibers[lastStep.arg.fib].hooks[lastStep.arg.n].queue) = 2
    /\ fibers[wipRoot].dom = Container
    /\ fibers[wipRoot].alternate = currentRoot

(***************************************************************************)
(* C12.  render(element, container) with a container present makes wipRoot *)
(* a new root fiber whose host node is the container, whose children are   *)
(* exactly <<element>> and whose alternate is the committed root (none on  *)
(* the first call), makes it nextUnitOfWork and empties deletions;         *)
(* currentRoot, every fiber there was and the host document are unchanged. *)
(***************************************************************************)
C12_RenderSeedsPass ==
    [][(lastStep'.kind = "render" /\ lastStep'.arg.container # 0) =>
         /\ ~lastStep'.threw
         /\ wipRoot' = Len(FibersBefore) + 1
         /\ fibers' = Append(FibersBefore,
                             Fiber("ROOT_FIBER", [children |-> <<lastStep'.arg.element>>],
                                   lastStep'.arg.container, 0, currentRoot, "NONE"))
         /\ nextUnitOfWork' = wipRoot'
         /\ deletions' = <<>>
         /\ currentRoot' = currentRoot
         /\ doms' = DomsBefore
         /\ LiveTree(doms') = LiveTree(doms)
         /\ lastStep'.ops = <<>>]_vars

\* a render of the Counter over a committed div
C12_Witness ==
    /\ lastStep.kind = "render"
    /\ ~lastStep.threw
    /\ currentRoot # 0
    /\ fibers[wipRoot].alternate = currentRoot
    /\ fibers[fibers[currentRoot].child].type = "div"
    /\ fibers[wipRoot].props.children[1].type = "Counter"

(***************************************************************************)
(* C13.  render with an absent container throws and leaves wipRoot,        *)
(* nextUnitOfWork, deletions, currentRoot, the fibers and the host         *)
(* document exactly as they were, and the idle callback stays registered.  *)
(***************************************************************************)
C13_RenderWithoutContainer ==
    [][(lastStep'.kind = "render" /\ lastStep'.arg.container = 0) =>
          /\ lastStep'.threw
          /\ UNCHANGED <<fibers, doms, nextUnitOfWork, wipRoot, currentRoot, deletions,
                         wipFiber, hookIndex, idleScheduled, heapMark, commits>>]_vars

\* the call arrived in the middle of a pass, which goes on
C13_Witness ==
    /\ lastStep.kind = "render"
    /\ lastStep.arg.container = 0
    /\ lastStep.threw
    /\ wipRoot # 0
    /\ nextUnitOfWork \notin {0, wipRoot}
    /\ deletions # <<>>

(***************************************************************************)
(* C14.  An idle slice calls commitRoot exactly when, after its work loop, *)
(* nextUnitOfWork is absent and wipRoot is present; after the call wipRoot *)
(* is absent and currentRoot is the root that was wipRoot, so that no pass *)
(* is committed twice; and a slice that finds no pass in progress commits  *)
(* nothing and leaves currentRoot and the host document as they were.      *)
(***************************************************************************)
\* the globals after the while loop of a slice with deadline n
AfterLoop(n) == workLoopWhile(Machine, n, 0)

C14_CommitWhenPassComplete ==
    [][lastStep'.kind = "workLoop" =>
         /\ lastStep'.committed <=>
               (AfterLoop(lastStep'.n).nextUnitOfWork = 0 /\ wipRoot # 0)
         /\ lastStep'.committed =>
               /\ wipRoot' = 0
               /\ currentRoot' = wipRoot
         /\ wipRoot = 0 =>
               /\ ~lastStep'.committed
               /\ lastStep'.ops = <<>>
               /\ currentRoot' = currentRoot
               /\ doms' = doms]_vars

(***************************************************************************)
(* C15.  A commit is all or nothing: in no reachable state has a commit    *)
(* applied a host operation and stopped before it made wipRoot the         *)
(* currentRoot.                                                            *)
(***************************************************************************)
\* the host operations the last handler performed after entering commitRoot
CommitOps == {i \in 1..Len(lastStep.ops) : lastStep.ops[i].phase = "commit" /\ lastStep.ops[i].ok}

C15_CommitAllOrNothing ==
    (JustCommitted /\ CommitOps # {}) => (wipRoot = 0 /\ ~lastStep.threw)

(***************************************************************************)
(* C16.  Every call of workLoop ends by registering workLoop with the idle *)
(* scheduler again, whatever happened in the slice: an idle callback is    *)
(* pending in every reachable state.                                       *)
(***************************************************************************)
C16_IdleCallbackAlwaysPending == idleScheduled

(***************************************************************************)
(* C17.  updateDOMOf applied to a node that reflects prevProps leaves it   *)
(* reflecting nextProps.  The listeners removed are those of prevProps     *)
(* that are gone or changed, the listeners added those of nextProps that   *)
(* are new or changed, the properties assigned those only in prevProps     *)
(* (reset to the empty value) and those new or changed in nextProps;       *)
(* afterwards each listener name carries exactly the handler of nextProps, *)
(* and neither children nor a listener name is ever assigned as a          *)
(* property.                                                               *)
(***************************************************************************)
EventKeys(props) == {key \in DOMAIN props : isEvent(key)}

PropertyKeys(props) == {key \in DOMAIN props : isProperty(key)}

\* the node shows props: every property of props has its value, every other
\* property of the node is empty, and the listeners are those of props
Reflects(node, props) ==
    /\ \A key \in PropertyKeys(props) :
          key \in DOMAIN node.props /\ node.props[key] = DomCoerce(props[key])
    /\ \A key \in DOMAIN node.props :
          /\ isProperty(key)
          /\ key \notin DOMAIN props => node.props[key] = Str("")
    /\ node.listeners = {<<EventNameOf(key), props[key]>> : key \in EventKeys(props)}

Changed(prev, next) == {key \in DOMAIN prev \cap DOMAIN next : prev[key] # next[key]}

KeysOfOps(step, kind) ==
    {step.ops[i].key : i \in {j \in 1..Len(step.ops) : step.ops[j].op = kind}}

C17_DiffReflectsNext ==
    [][(lastStep'.kind = "updateDOMOf" /\ Reflects(doms[2], fibers[Len(fibers)].props)) =>
         LET prev == fibers'[1].props
             next == fibers'[2].props
         IN /\ prev = fibers[Len(fibers)].props
            /\ Reflects(doms'[2], next)
            /\ KeysOfOps(lastStep', "removeEventListener")
                  = {EventNameOf(key) :
                       key \in EventKeys(prev) \cap ((DOMAIN prev \ DOMAIN next)
                                                        \cup Changed(prev, next))}
            /\ KeysOfOps(lastStep', "addEventListener")
                  = {EventNameOf(key) :
                       key \in EventKeys(next) \cap ((DOMAIN next \ DOMAIN prev)
                                                        \cup Changed(prev, next))}
            /\ KeysOfOps(lastStep', "setProperty")
                  = (PropertyKeys(prev) \ DOMAIN next)
                       \cup (PropertyKeys(next) \cap ((DOMAIN next \ DOMAIN prev)
                                                         \cup Changed(prev, next)))
            /\ \A l1, l2 \in doms'[2].listeners : l1[1] = l2[1] => l1 = l2
            /\ \A i \in 1..Len(lastStep'.ops) :
                  /\ lastStep'.ops[i].node = 2
                  /\ lastStep'.ops[i].op = "setProperty" =>
                        lastStep'.ops[i].key # "children" /\ ~isEvent(lastStep'.ops[i].key)]_vars

\* a title gone, a style new and a listener exchanged in one update
C17_Witness ==
    /\ lastStep.kind = "updateDOMOf"
    /\ Len(fibers) = 2
    /\ DOMAIN fibers[1].props = {"children", "onClick", "title"}
    /\ DOMAIN fibers[2].props = {"children", "onClick", "style"}
    /\ fibers[1].props.onClick # fibers[2].props.onClick
    /\ doms[2].props.title = Str("")
    /\ doms[2].listeners = {<<"click", fibers[2].props.onClick>>}

(***************************************************************************)
(* C18.  The diff of a property bag with itself does nothing: no property  *)
(* is assigned or reset and no listener is added or removed.               *)
(***************************************************************************)
C18_DiffWithItselfIdle ==
    (lastStep.kind = "updateDOMOf" /\ fibers[1].props = fibers[2].props) =>
        lastStep.ops = <<>>

\* a bag with a listener and two properties, diffed with itself
C18_Witness ==
    /\ lastStep.kind = "updateDOMOf"
    /\ fibers[1].props = fibers[2].props
    /\ DOMAIN fibers[2].props = {"children", "onClick", "title", "style"}
    /\ fibers[2].props.title = Num(2)

(***************************************************************************)
(* C19.  performUnitOfWork walks the work-in-progress tree in depth-first  *)
(* pre-order.  The fibers a slice processes are, in order, the stretch of  *)
(* the pre-order of the tree that starts at the fiber the slice resumed    *)
(* from (the root, for the first slice of a pass); the fiber left in       *)
(* nextUnitOfWork is the one that follows the stretch, absent exactly when *)
(* the stretch ends the pre-order; and every fiber walked is a fiber of    *)
(* the pass, none of an earlier tree.  Slice after slice, each fiber of    *)
(* the tree is therefore processed once, a parent before its children and  *)
(* a whole subtree before the next sibling.                                *)
(***************************************************************************)
\* f, the tree below it, then its siblings and theirs
RECURSIVE PreOrder(_, _)
PreOrder(F, f) ==
    IF f = 0 THEN <<>>
    ELSE <<f>> \o PreOrder(F, F[f].child) \o PreOrder(F, F[f].sibling)

PositionIn(seq, x) == CHOOSE i \in 1..Len(seq) : seq[i] = x

C19_DepthFirstPreOrder ==
    [][(lastStep'.kind = "workLoop" /\ wipRoot # 0) =>
         LET order == PreOrder(fibers', wipRoot)
             k == PositionIn(order, nextUnitOfWork)
             len == Len(lastStep'.processed)
         IN /\ nextUnitOfWork \in Range(order)
            /\ nextUnitOfWork = wipRoot => k = 1
            /\ \A i, j \in 1..Len(order) : order[i] = order[j] => i = j
            /\ \A i \in 1..Len(order) : order[i] >= wipRoot
            /\ k + len - 1 <= Len(order)
            /\ lastStep'.processed = SubSeq(order, k, k + len - 1)
            /\ nextUnitOfWork' = IF k + len <= Len(order) THEN order[k + len] ELSE 0]_vars

\* a slice that resumed at the text below p and climbed to p's sibling b
C19_Witness ==
    /\ lastStep.kind = "workLoop"
    /\ Len(lastStep.processed) = 2
    /\ fibers[lastStep.processed[1]].type = "TEXT_FIBER"
    /\ fibers[fibers[lastStep.processed[1]].parent].type = "p"
    /\ fibers[lastStep.processed[2]].type = "b"
    /\ fibers[lastStep.processed[2]].parent = fibers[fibers[lastStep.processed[1]].parent].parent

(***************************************************************************)
(* C20.  After reconcileChildren(parent, elements) the chain parent.child, *)
(* .sibling, ... holds exactly as many fibers as there are elements, the   *)
(* i-th with the type and props of the i-th element and parent as its      *)
(* parent, all of them new, and the last without sibling, whatever the     *)
(* lengths of the new and the previous list.                               *)
(***************************************************************************)
MirrorsElements(w, els) ==
    LET chain == ChildrenOf(fibers, w)
    IN /\ Len(chain) = Len(els)
       /\ els = <<>> => fibers[w].child = 0
       /\ \A i \in 1..Len(chain) :
             /\ i <= Len(els)
             /\ fibers[chain[i]].type = els[i].type
             /\ fibers[chain[i]].props = els[i].props
             /\ fibers[chain[i]].parent = w
             /\ chain[i] > w
             /\ i = Len(els) => fibers[chain[i]].sibling = 0

C20_ChainMirrorsElements ==
    lastStep.kind = "reconcileChildren" =>
        MirrorsElements(currentRoot, fibers[currentRoot].props.children)

\* three previous children and no new one: no child, three deletions
C20_Witness ==
    /\ lastStep.kind = "reconcileChildren"
    /\ Len(ChildrenOf(fibers, fibers[currentRoot].alternate)) = 3
    /\ fibers[currentRoot].props.children = <<>>
    /\ Len(deletions) = 3

(***************************************************************************)
(* C21.  During a commit every appendChild is done for a fiber tagged      *)
(* PLACEMENT that owns a host node, and attaches that node to the host     *)
(* node of the fiber's nearest ancestor that owns one, function-kind       *)
(* fibers in between being skipped; every placed fiber of the committed    *)
(* tree gets one; and the upward search never runs off the top of the      *)
(* tree: a commit fails only inside a host primitive.                      *)
(***************************************************************************)
\* the nearest fiber from f upwards that owns a host node (0: there is none)
RECURSIVE HostOwnerFrom(_, _)
HostOwnerFrom(F, f) ==
    IF f = 0 THEN 0
    ELSE IF F[f].dom # 0 THEN f
    ELSE HostOwnerFrom(F, F[f].parent)

C21_PlacementUnderHostAncestor ==
    JustCommitted =>
        /\ \A i \in OpsOf({"appendChild"}) :
              LET f == lastStep.ops[i].fiber
                  owner == HostOwnerFrom(fibers, fibers[f].parent)
              IN /\ fibers[f].effectTag = "PLACEMENT"
                 /\ fibers[f].dom = lastStep.ops[i].node
                 /\ owner # 0
                 /\ lastStep.ops[i].parent = fibers[owner].dom
                 /\ lastStep.ops[i].ok
        /\ ~lastStep.threw =>
              \A f \in TreeOf(fibers, currentRoot) \ {currentRoot} :
                  (fibers[f].effectTag = "PLACEMENT" /\ fibers[f].dom # 0) =>
                      \E i \in OpsOf({"appendChild"}) : lastStep.ops[i].fiber = f
        /\ lastStep.threw => \E i \in 1..Len(lastStep.ops) : ~lastStep.ops[i].ok

\* the h1 of the Counter is attached to the container, past the Counter fiber
C21_Witness ==
    /\ JustCommitted
    /\ \E i \in OpsOf({"appendChild"}) :
          /\ fibers[lastStep.ops[i].fiber].type = "h1"
          /\ fibers[fibers[lastStep.ops[i].fiber].parent].type = "Counter"
          /\ lastStep.ops[i].parent = Container
          /\ lastStep.ops[i].node \in Attached(doms)

(***************************************************************************)
(* C22.  A commit touches the host only for the fibers of the deletions    *)
(* list, one removal each, and for the fibers of the tree being committed  *)
(* (appendChild, property and listener updates).  No other fiber of an     *)
(* outgoing tree, such as a descendant or a following sibling of a deleted *)
(* fiber, is the cause of a host operation: an effect tag left by an       *)
(* earlier pass triggers nothing.                                          *)
(***************************************************************************)
\* the root of the tree the last commit was for
CommittingRoot == IF wipRoot # 0 THEN wipRoot ELSE currentRoot

C22_CommitTouchesOnlyItsPass ==
    JustCommitted =>
        /\ \A i \in 1..Len(lastStep.ops) :
              lastStep.ops[i].phase = "commit" =>
                 IF lastStep.ops[i].op = "removeChild"
                 THEN lastStep.ops[i].fiber \in Range(deletions)
                 ELSE lastStep.ops[i].fiber \in TreeOf(fibers, CommittingRoot)
        /\ \A d \in Range(deletions) :
              Cardinality({i \in OpsOf({"removeChild"}) : lastStep.ops[i].fiber = d}) <= 1

(***************************************************************************)
(* C23.  A pass that is superseded before it commits leaves no trace: from *)
(* any state without a pass in flight, rendering element e1, working on it *)
(* for a slice that does not finish it, then rendering e2 and running that *)
(* pass to its commit gives the live host tree and the committed fiber     *)
(* tree that rendering e2 straight away gives.                             *)
(***************************************************************************)
\* what a pass rooted at fiber root left: the live host tree and its fiber tree
PassResult(m, root) ==
    [threw |-> m.err,
     live |-> LiveTree(m.doms),
     tree |-> [f \in TreeOf(m.fibers, root) |-> m.fibers[f]]]

\* render(e2) from the current state, run to its commit
Direct(e2) == workLoop(render(Machine, e2, Container), 0)

\* the state after render(e1) and one slice of n units of work
Abandoned(e1, n) == workLoopWhile(render(Machine, e1, Container), n, 0)

\* render(e2) over that state, the fibers and nodes of the abandoned pass
\* reclaimed, run to its commit
Superseding(e1, n, e2) ==
    workLoop(render([Abandoned(e1, n) EXCEPT !.fibers = SubSeq(@, 1, Len(fibers)),
                                            !.doms = SubSeq(@, 1, Len(doms)),
                                            !.processed = <<>>,
                                            !.ops = <<>>],
                    e2, Container),
             0)

C23_SupersededPassLeavesNoTrace ==
    (wipRoot = 0 /\ idleScheduled) =>
        \A e1, e2 \in RootElements : \A n \in Deadlines \ {0} :
            Abandoned(e1, n).nextUnitOfWork # 0 =>
                PassResult(Superseding(e1, n, e2), Len(fibers) + 1)
                    = PassResult(Direct(e2), Len(fibers) + 1)

(***************************************************************************)
(* C28.  The alternate of a fiber is set when the fiber is created and     *)
(* never changes; the alternate of the work-in-progress root is            *)
(* currentRoot; and every other fiber of the work-in-progress tree that    *)
(* has an alternate points to a fiber of the tree of currentRoot that has  *)
(* the same type and sits at the same position: its parent is the          *)
(* alternate of the fiber's parent and it has the same rank among the      *)
(* children.                                                               *)
(***************************************************************************)
\* the fibers a step leaves in place (a render or a setter call drops the
\* fibers of the pass it abandons)
Surviving ==
    1..(IF lastStep'.kind \in {"render", "click"} /\ ~lastStep'.threw
        THEN Len(FibersBefore) ELSE Len(fibers))

RankOf(F, f) == PositionIn(ChildrenOf(F, F[f].parent), f)

C28_AlternateFixedAndAligned ==
    [][/\ \A f \in Surviving : fibers'[f].alternate = fibers[f].alternate
       /\ wipRoot' # 0 =>
             /\ fibers'[wipRoot'].alternate = currentRoot'
             /\ \A f \in TreeOf(fibers', wipRoot') \ {wipRoot'} :
                   LET alt == fibers'[f].alternate
                   IN alt # 0 =>
                         /\ alt \in TreeOf(fibers', currentRoot')
                         /\ fibers'[alt].type = fibers'[f].type
                         /\ fibers'[alt].parent = fibers'[fibers'[f].parent].alternate
                         /\ RankOf(fibers', alt) = RankOf(fibers', f)]_vars

\* a pass over a committed tree has reached the grandchildren of the root
C28_Witness ==
    /\ wipRoot # 0
    /\ currentRoot # 0
    /\ \E f \in TreeOf(fibers, wipRoot) :
          /\ fibers[f].alternate # 0
          /\ fibers[f].parent \notin {0, wipRoot}
          /\ RankOf(fibers, f) = 2
    /\ \E f \in TreeOf(fibers, wipRoot) :
          fibers[f].alternate = 0 /\ fibers[f].effectTag = "PLACEMENT"

(***************************************************************************)
(* C24.  No action passed to a setter is lost, and none is applied twice.  *)
(* useState replays the queue of the hook of the fiber's alternate, once,  *)
(* into the state of the new hook; so an action counts exactly once when   *)
(* the hook it was queued on is either a hook of the committed tree, which *)
(* the next pass will replay, or a hook that a later fiber has as its      *)
(* alternate's, with the whole queue folded into that fiber's state.       *)
(* Stated of every state in which no pass is in flight: every hook with a  *)
(* queued action is of one of these two kinds.                             *)
(***************************************************************************)
\* the hooks (fiber, number) that hold a queued action
PendingHooks ==
    {h \in (1..Len(fibers)) \X (1..1) :
        Len(fibers[h[1]].hooks) >= h[2] /\ fibers[h[1]].hooks[h[2]].queue # <<>>}

\* some fiber replayed hook i of fiber f
Replayed(f, i) ==
    \E g \in 1..Len(fibers) :
        /\ fibers[g].alternate = f
        /\ Len(fibers[g].hooks) >= i
        /\ fibers[g].hooks[i].state
              = FoldActions(fibers[f].hooks[i].queue, Len(fibers[f].hooks[i].queue),
                            fibers[f].hooks[i].state)

C24_NoActionLost ==
    wipRoot = 0 =>
        \A h \in PendingHooks :
            h[1] \in TreeOf(fibers, currentRoot) \/ Replayed(h[1], h[2])

(***************************************************************************)
(* C25.  In every reachable state the unit of work belongs to the pass in  *)
(* flight: when nextUnitOfWork is present, wipRoot is present and          *)
(* nextUnitOfWork is a fiber of the tree rooted at wipRoot; when wipRoot   *)
(* is absent, so is nextUnitOfWork.  This includes the states a component  *)
(* leaves behind that calls its setter while performUnitOfWork runs it.    *)
(***************************************************************************)
C25_UnitOfWorkBelongsToPass ==
    /\ nextUnitOfWork # 0 => (wipRoot # 0 /\ nextUnitOfWork \in TreeOf(fibers, wipRoot))
    /\ wipRoot = 0 => nextUnitOfWork = 0

(***************************************************************************)
(* C26.  A pass that was started and is not superseded commits sooner or   *)
(* later, whatever the deadlines of the idle slices.  Only an idle slice   *)
(* can carry such a pass forward, so the claim needs a slice to be pending *)
(* for as long as the pass is in flight: in a state with a                 *)
(* work-in-progress root and no registered callback no step is possible,   *)
(* every behaviour stutters there for ever, fair or not, and the pass      *)
(* never commits.  Stated of every reachable state: while wipRoot is       *)
(* present, an idle callback is registered.                                *)
(***************************************************************************)
C26_PassNeverStranded == wipRoot # 0 => idleScheduled

(***************************************************************************)
(* C27.  A setter called while currentRoot is absent, as by a component    *)
(* that calls it while the first pass renders it, fails with an error and  *)
(* starts no pass: wipRoot, nextUnitOfWork and deletions are what they     *)
(* were before the call (nextUnitOfWork was the fiber being rendered), and *)
(* the first pass can still run to its commit, an idle callback being      *)
(* registered.                                                             *)
(***************************************************************************)
\* the slice just taken ended in the error of a setter called before any commit
SetterFailedBeforeCommit ==
    /\ currentRoot = 0
    /\ lastStep'.kind = "workLoop"
    /\ lastStep'.threw
    /\ ~lastStep'.committed

C27_FailedSetterLeavesPassRunning ==
    [][SetterFailedBeforeCommit =>
          /\ wipRoot' = wipRoot
          /\ deletions' = deletions
          /\ nextUnitOfWork' = wipFiber'
          /\ idleScheduled']_vars

====
